---- MODULE Spec2Model ----
(***************************************************************************)
(* Model of the IKnowEverything chat relay (supabase/functions/chat) and   *)
(* of the two tables it writes (conversations, messages).                  *)
(*                                                                         *)
(* One relay request is a sequential pipeline with an await between its    *)
(* steps; every action below is "the awaited operation completes and the   *)
(* handler runs on to its next await (or to its return)".  Requests        *)
(* interleave with one another and with clients that reach the tables      *)
(* through the row-level-security policies of the schema.                  *)
(***************************************************************************)
EXTENDS Integers, Sequences, FiniteSets, TLC

(* ------------------------------ bounds --------------------------------- *)

\* relay requests that may be in flight or finished
MaxReq == 2
\* rows a client inserts into messages directly, through the policy
MaxDirect == 1
\* conversations ever created
MaxConv == 2

(* -------------------------- program constants -------------------------- *)

\* characters of the first message a title keeps
TitleLimit == 50

\* .limit(20) of the history query
HistoryLimit == 20

Users == {"u1", "u2"}
\* calls of sendMessage
MaxSend == 2
\* files selected at a time
MaxFiles == 2

Sends == 1..MaxSend
Reqs == 1..MaxReq
ConvIds == 1..MaxConv

Null == "null"
NoError == "none"

\* error.message of the failures the handler can meet
ErrInvalidBody == "Invalid request body"
ErrNoInput == "Either message or files must be provided"
ErrNoAuthHeader == "No authorization header"
ErrNotAuthenticated == "User not authenticated: Invalid JWT token"
ErrNoApiKey == "Google Gemini API key not found"
ErrGemini == "Google Gemini API error: 500"
ErrMalformedReply == "Cannot read properties of undefined"
ErrForeignKey == "violates foreign key constraint"
ErrRoleCheck == "violates check constraint"
ErrUnavailable == "database unavailable"

corsHeaders == [allowOrigin |-> "*",
                allowHeaders |-> "authorization, x-client-info, apikey, content-type"]

(* ------------------------------ inputs --------------------------------- *)

\* a file of the request: its type as <<prefix, subtype>> and its data URL as
\* the segments a ',' separates
Png == [type |-> <<"image/", "png">>, data |-> <<"data:image/png;base64", "iVBOR">>]
Pdf == [type |-> <<"application/", "pdf">>, data |-> <<"data:application/pdf;base64", "JVBER">>]

\* the body of a request; valid = FALSE is a body req.json() rejects
InvalidBody == [valid |-> FALSE, message |-> "", files |-> << >>]
Bodies == { [valid |-> TRUE, message |-> m, files |-> f] :
              m \in {"", "hi"}, f \in {<< >>, <<Pdf, Png>>} } \cup {InvalidBody}

\* the authorization header as <<scheme, token>>, << >> when absent
AuthHeaders == {<< >>, <<"Bearer ", "jwt-u1">>, <<"Bearer ", "jwt-u2">>, <<"Bearer ", "forged">>}

ValidBodies == {b \in Bodies : b.valid /\ (b.message # "" \/ Len(b.files) > 0)}
ValidHeaders == {<<"Bearer ", "jwt-u1">>, <<"Bearer ", "jwt-u2">>}

Post(b, h, c) == [method |-> "POST", body |-> b, authHeader |-> h, conversationId |-> c]

\* the requests that reach the function: the well-formed ones of both users
\* on every conversation id, and one request for each way of being refused
Inbound ==
  { Post(b, h, c) : b \in ValidBodies, h \in ValidHeaders, c \in ConvIds }
  \cup { Post(b, <<"Bearer ", "jwt-u1">>, 1) : b \in Bodies \ ValidBodies }
  \cup { Post([valid |-> TRUE, message |-> "hi", files |-> << >>], h, 1) :
           h \in AuthHeaders \ ValidHeaders }
  \cup { [method |-> "OPTIONS", body |-> InvalidBody, authHeader |-> << >>,
          conversationId |-> 1] }

\* the answers of the generation API: a reply, a non-OK status, or an OK
\* answer without candidates
GeminiAnswers == {"reply", "not_ok", "no_candidates"}

VARIABLES
  conversations,  \* rows of public.conversations: [id, user_id, title, updated_at]
  messages,       \* rows of public.messages, in insertion order
  clock,          \* now(): the created_at of the next row
  geminiApiKey,   \* Deno.env.get('GOOGLE_GEMINI_API_KEY'), Null when unset
  convCount,      \* conversations created so far (ids are never reused)
  req,            \* per request: its inputs, locals, position and response
  apiCalls,       \* per request: the calls it made to the generation API
  directs,        \* what the direct inserts of clients were answered, in order
  ui,             \* the state of ModernChatInterface (its useState values, useAuth)
  send,           \* per call of sendMessage: its closure, locals and position
  loads,          \* the selects in flight: a conversation id for its messages
                  \* (loadMessages), 0 for the list of conversations
  now             \* Date.now() at its last reading

\* the state of the page
view == <<ui, send, loads, now>>

vars == <<conversations, messages, clock, geminiApiKey, convCount, req, apiCalls, directs,
          ui, send, loads, now>>

(* ----------------------------- the tables ------------------------------ *)

ConversationIds == {c.id : c \in conversations}

\* a table without the check on role
RoleUnchecked(role) == TRUE

\* CHECK (role IN ('user', 'assistant'))
RoleCheck(role) == role \in {"user", "assistant"}

\* a column without the reference to conversations
ForeignKeyUnchecked(cid) == TRUE

\* conversation_id UUID NOT NULL REFERENCES public.conversations(id)
ForeignKeyCheck(cid) == cid \in ConversationIds

\* the error of an insert into messages, NoError when the row is accepted
InsertError(cid, role, dbUp) ==
  IF ~dbUp THEN ErrUnavailable
  ELSE IF ~ForeignKeyCheck(cid) THEN ErrForeignKey
  ELSE IF ~RoleCheck(role) THEN ErrRoleCheck
  ELSE NoError

\* a new row; "via" is not a column: it records the request that wrote the
\* row (0: a client, or a request before the ones modelled)
NewRow(cid, content, role, uid, via) ==
  [id |-> clock, conversation_id |-> cid, content |-> content, role |-> role,
   user_id |-> uid, created_at |-> clock, via |-> via]

\* an insert that writes the row although it answers with an error
InsertMessageNotAtomic(cid, content, role, uid, via, dbUp) ==
  Append(messages, NewRow(cid, content, role, uid, via))

\* messages after an insert: the row is appended unless the insert fails
InsertMessage(cid, content, role, uid, via, dbUp) ==
  IF InsertError(cid, role, dbUp) = NoError
  THEN Append(messages, NewRow(cid, content, role, uid, via))
  ELSE messages

\* now() after an insert
Tick(cid, role, dbUp) == IF InsertError(cid, role, dbUp) = NoError THEN clock + 1 ELSE clock

\* a delete that takes the rows of every conversation with it
CascadeDeleteAll(cid) == << >>

\* ON DELETE CASCADE: the rows of a deleted conversation go with it
CascadeDelete(cid) == SelectSeq(messages, LAMBDA m : m.conversation_id # cid)

\* USING (true) of "Allow public access to messages"
MessagesPolicy(row, uid) == TRUE

(* ----------------------------- the queries ----------------------------- *)

RECURSIVE InsertSorted(_, _)
InsertSorted(row, s) ==
  IF s = << >> THEN <<row>>
  ELSE IF row.created_at < Head(s).created_at THEN <<row>> \o s
  ELSE <<Head(s)>> \o InsertSorted(row, Tail(s))

\* .order('created_at', { ascending: true })
RECURSIVE OrderAscending(_)
OrderAscending(s) ==
  IF s = << >> THEN << >>
  ELSE InsertSorted(s[Len(s)], OrderAscending(SubSeq(s, 1, Len(s) - 1)))

\* .limit(n)
Limit(s, n) == SubSeq(s, 1, IF Len(s) < n THEN Len(s) ELSE n)

\* .eq('conversation_id', cid).eq('user_id', uid)
Matching(cid, uid) ==
  SelectSeq(messages, LAMBDA m : m.conversation_id = cid /\ m.user_id = uid)

\* the rows of the relay's history query
HistoryRows(cid, uid) == Limit(OrderAscending(Matching(cid, uid)), HistoryLimit)

\* .select('content, role')
Project(rows) == [i \in 1..Len(rows) |-> [content |-> rows[i].content, role |-> rows[i].role]]

Owners(rows) == {rows[i].user_id : i \in 1..Len(rows)}

(* ------------------------------ the relay ------------------------------ *)

PreflightResponse ==
  [status |-> 200, headers |-> corsHeaders, hasBody |-> FALSE,
   success |-> FALSE, response |-> Null, error |-> Null]

SuccessResponse(text) ==
  [status |-> 200, headers |-> corsHeaders, hasBody |-> TRUE,
   success |-> TRUE, response |-> text, error |-> Null]

\* the catch block
ErrorResponse(msg) ==
  [status |-> 500, headers |-> corsHeaders, hasBody |-> TRUE,
   success |-> FALSE, response |-> Null, error |-> msg]

NoResponse ==
  [status |-> 0, headers |-> corsHeaders, hasBody |-> FALSE,
   success |-> FALSE, response |-> Null, error |-> Null]

\* authHeader.replace('Bearer ', ''): the first 'Bearer ' is removed
RECURSIVE ReplaceBearer(_)
ReplaceBearer(h) ==
  IF h = << >> THEN << >>
  ELSE IF Head(h) = "Bearer " THEN Tail(h)
  ELSE <<Head(h)>> \o ReplaceBearer(Tail(h))

\* getUser that takes any token for a token of u1
GetUserUnverified(jwt) == IF jwt = << >> THEN Null ELSE "u1"

\* supabase.auth.getUser(jwt): the user of a token the auth service issued
GetUser(jwt) ==
  IF jwt = <<"jwt-u1">> THEN "u1"
  ELSE IF jwt = <<"jwt-u2">> THEN "u2"
  ELSE Null

\* a test that takes every file for an image
IsAnyFile(file) == file.type = file.type

\* file.type.startsWith('image/')
IsImage(file) == file.type[1] = "image/"

\* the inlineData parts of the image files, in order
RECURSIVE InlineParts(_)
InlineParts(files) ==
  IF files = << >> THEN << >>
  ELSE (IF IsImage(Head(files))
        THEN <<[inlineData |-> [mimeType |-> Head(files).type, data |-> Head(files).data[2]]]>>
        ELSE << >>) \o InlineParts(Tail(files))

\* a stored content that is the message as it came
messageContentAsSent(message) == message

\* message || '[Image analysis requested]'
messageContent(message) == IF message # "" THEN message ELSE "[Image analysis requested]"

\* (messages || []).filter(msg => msg.role !== 'system')
contextMessages(history) == SelectSeq(history, LAMBDA m : m.role # "system")

\* contents that keep the role names of the table
geminiMessagesRolesKept(context, files) ==
  [i \in 1..Len(context) |->
     [role |-> context[i].role,
      parts |-> <<[text |-> context[i].content]>> \o
                (IF i = Len(context) /\ context[i].role = "user" /\ Len(files) > 0
                 THEN InlineParts(files) ELSE << >>)]]

\* history rows as entries of the generateContent call
geminiMessages(context, files) ==
  [i \in 1..Len(context) |->
     [role |-> IF context[i].role = "assistant" THEN "model" ELSE "user",
      parts |-> <<[text |-> context[i].content]>> \o
                (IF i = Len(context) /\ context[i].role = "user" /\ Len(files) > 0
                 THEN InlineParts(files) ELSE << >>)]]

currentMessageParts(message, files) ==
  <<[text |-> IF message # "" THEN message ELSE "Please analyze this image."]>>
  \o (IF Len(files) > 0 THEN InlineParts(files) ELSE << >>)

\* contents of the generateContent call
Contents(history, message, files) ==
  geminiMessages(contextMessages(history), files)
  \o <<[role |-> "user", parts |-> currentMessageParts(message, files)]>>

IdleRequest ==
  [pc |-> "idle", method |-> Null, body |-> InvalidBody, authHeader |-> << >>,
   conversationId |-> 0, jwt |-> << >>, user |-> Null, history |-> << >>,
   historyError |-> FALSE, contents |-> << >>, assistantMessage |-> Null,
   response |-> NoResponse, steps |-> << >>, failed |-> {}]

\* throw inside the try block: the catch block answers.  "failed" is not a
\* local of the handler: it records the steps that met an error
Throw(q, step, msg) ==
  [q EXCEPT !.pc = "done", !.response = ErrorResponse(msg), !.failed = @ \cup {step}]

\* a handler that reads the body before it looks at the method
ReceiveParsesFirst(r, in) ==
  /\ req[r].pc = "idle"
  /\ r > 1 => req[r - 1].pc # "idle"
  /\ LET q == [req[r] EXCEPT !.method = in.method, !.body = in.body,
                             !.authHeader = in.authHeader,
                             !.conversationId = in.conversationId]
     IN req' = [req EXCEPT ![r] =
          IF ~in.body.valid THEN Throw(q, "parse_body", ErrInvalidBody)
          ELSE IF in.method = "OPTIONS"
            THEN [q EXCEPT !.pc = "done", !.response = PreflightResponse]
          ELSE IF in.body.message = "" /\ Len(in.body.files) = 0
            THEN Throw(q, "validate", ErrNoInput)
          ELSE IF in.authHeader = << >> THEN Throw(q, "authorize", ErrNoAuthHeader)
          ELSE [q EXCEPT !.pc = "auth", !.jwt = ReplaceBearer(in.authHeader)]]
  /\ UNCHANGED <<conversations, messages, clock, geminiApiKey, convCount, apiCalls,
                 directs>>

\* serve handler up to supabase.auth.getUser
Receive(r, in) ==
  /\ req[r].pc = "idle"
  /\ r > 1 => req[r - 1].pc # "idle"
  /\ LET q == [req[r] EXCEPT !.method = in.method, !.body = in.body,
                             !.authHeader = in.authHeader,
                             !.conversationId = in.conversationId]
     IN req' = [req EXCEPT ![r] =
          IF in.method = "OPTIONS"
            THEN [q EXCEPT !.pc = "done", !.response = PreflightResponse]
          ELSE IF ~in.body.valid THEN Throw(q, "parse_body", ErrInvalidBody)
          ELSE IF in.body.message = "" /\ Len(in.body.files) = 0
            THEN Throw(q, "validate", ErrNoInput)
          ELSE IF in.authHeader = << >> THEN Throw(q, "authorize", ErrNoAuthHeader)
          ELSE [q EXCEPT !.pc = "auth", !.jwt = ReplaceBearer(in.authHeader)]]
  /\ UNCHANGED <<conversations, messages, clock, geminiApiKey, convCount, apiCalls,
                 directs>>

\* a handler that stores the user message before it looks for the API key
AuthenticateStoresFirst(r) ==
  /\ req[r].pc = "auth"
  /\ LET user == GetUser(req[r].jwt)
         cid == req[r].conversationId
         stores == user # Null /\ geminiApiKey = Null
     IN /\ req' = [req EXCEPT ![r] =
             IF user = Null THEN Throw(req[r], "authenticate", ErrNotAuthenticated)
             ELSE IF geminiApiKey = Null THEN Throw(req[r], "api_key", ErrNoApiKey)
             ELSE [req[r] EXCEPT !.pc = "store_user", !.user = user]]
        /\ messages' = IF stores
                       THEN InsertMessage(cid, messageContent(req[r].body.message), "user",
                                          user, r, TRUE)
                       ELSE messages
        /\ clock' = IF stores THEN Tick(cid, "user", TRUE) ELSE clock
  /\ UNCHANGED <<conversations, geminiApiKey, convCount, apiCalls, directs>>

\* getUser answers; the API key is read; the insert of the user message is issued
Authenticate(r) ==
  /\ req[r].pc = "auth"
  /\ LET user == GetUser(req[r].jwt)
     IN req' = [req EXCEPT ![r] =
          IF user = Null THEN Throw(req[r], "authenticate", ErrNotAuthenticated)
          ELSE IF geminiApiKey = Null THEN Throw(req[r], "api_key", ErrNoApiKey)
          ELSE [req[r] EXCEPT !.pc = "store_user", !.user = user]]
  /\ UNCHANGED <<conversations, messages, clock, geminiApiKey, convCount, apiCalls,
                 directs>>

\* the handler goes on to the history query without storing the user message
StoreUserOmitted(r) ==
  /\ req[r].pc = "store_user"
  /\ req' = [req EXCEPT ![r] = [req[r] EXCEPT !.pc = "history"]]
  /\ UNCHANGED <<conversations, messages, clock, geminiApiKey, convCount, apiCalls, directs>>

\* the insert of the user message answers; the history query is issued
\* a handler that goes on when the insert of the user message was refused
StoreUserErrorIgnored(r) ==
  /\ req[r].pc = "store_user"
  /\ \E dbUp \in BOOLEAN :
       LET cid == req[r].conversationId
       IN /\ messages' = InsertMessage(cid, messageContent(req[r].body.message), "user",
                                       req[r].user, r, dbUp)
          /\ clock' = Tick(cid, "user", dbUp)
          /\ req' = [req EXCEPT ![r] =
               [req[r] EXCEPT !.pc = "history", !.steps = Append(@, "persist_user")]]
  /\ UNCHANGED <<conversations, geminiApiKey, convCount, apiCalls, directs>>

StoreUser(r) ==
  /\ req[r].pc = "store_user"
  /\ \E dbUp \in BOOLEAN :
       LET cid == req[r].conversationId
           messageError == InsertError(cid, "user", dbUp)
       IN /\ messages' = InsertMessage(cid, messageContent(req[r].body.message), "user",
                                       req[r].user, r, dbUp)
          /\ clock' = Tick(cid, "user", dbUp)
          /\ req' = [req EXCEPT ![r] =
               IF messageError # NoError THEN Throw(req[r], "persist_user", messageError)
               ELSE [req[r] EXCEPT !.pc = "history",
                                   !.steps = Append(@, "persist_user")]]
  /\ UNCHANGED <<conversations, geminiApiKey, convCount, apiCalls, directs>>

\* the history query answers; the contents are built; the API call is issued
FetchHistory(r) ==
  /\ req[r].pc = "history"
  /\ \E dbUp \in BOOLEAN :
       LET rows == IF dbUp THEN HistoryRows(req[r].conversationId, req[r].user) ELSE << >>
           history == Project(rows)
       IN /\ req' = [req EXCEPT ![r] =
               [req[r] EXCEPT !.pc = "generate", !.history = history,
                              !.historyError = ~dbUp,
                              !.failed = IF dbUp THEN @ ELSE @ \cup {"fetch_history"},
                              !.contents = Contents(history, req[r].body.message,
                                                    req[r].body.files),
                              !.steps = Append(@, "fetch_history")]]
  /\ UNCHANGED <<conversations, messages, clock, geminiApiKey, convCount, apiCalls, directs>>

\* the generation API answers; the insert of the assistant message is issued
Generate(r) ==
  /\ req[r].pc = "generate"
  /\ apiCalls' = [apiCalls EXCEPT ![r] = @ + 1]
  /\ \E answer \in GeminiAnswers :
       req' = [req EXCEPT ![r] =
         LET q == [req[r] EXCEPT !.steps = Append(@, "call_api")]
         IN IF answer = "not_ok" THEN Throw(q, "call_api", ErrGemini)
            ELSE IF answer = "no_candidates" THEN Throw(q, "call_api", ErrMalformedReply)
            ELSE [q EXCEPT !.pc = "store_assistant", !.assistantMessage = answer]]
  /\ UNCHANGED <<conversations, messages, clock, geminiApiKey, convCount, directs>>

\* the response is returned whatever the insert of the assistant message answers
StoreAssistantUnchecked(r) ==
  /\ req[r].pc = "store_assistant"
  /\ \E dbUp \in BOOLEAN :
       LET cid == req[r].conversationId
       IN /\ messages' = InsertMessage(cid, req[r].assistantMessage, "assistant",
                                       req[r].user, r, dbUp)
          /\ clock' = Tick(cid, "assistant", dbUp)
          /\ req' = [req EXCEPT ![r] =
               [req[r] EXCEPT !.pc = "done",
                              !.response = SuccessResponse(req[r].assistantMessage),
                              !.steps = @ \o <<"persist_assistant", "return">>]]
  /\ UNCHANGED <<conversations, geminiApiKey, convCount, apiCalls, directs>>

\* the insert of the assistant message answers; the response is returned
StoreAssistant(r) ==
  /\ req[r].pc = "store_assistant"
  /\ \E dbUp \in BOOLEAN :
       LET cid == req[r].conversationId
           assistantMessageError == InsertError(cid, "assistant", dbUp)
       IN /\ messages' = InsertMessage(cid, req[r].assistantMessage, "assistant",
                                       req[r].user, r, dbUp)
          /\ clock' = Tick(cid, "assistant", dbUp)
          /\ req' = [req EXCEPT ![r] =
               IF assistantMessageError # NoError
                 THEN Throw(req[r], "persist_assistant", assistantMessageError)
               ELSE [req[r] EXCEPT !.pc = "done",
                                   !.response = SuccessResponse(req[r].assistantMessage),
                                   !.steps = @ \o <<"persist_assistant", "return">>]]
  /\ UNCHANGED <<conversations, geminiApiKey, convCount, apiCalls, directs>>

(* ----------------------------- the clients ----------------------------- *)

\* the row of insert({ title: 'New Chat', user_id: user.id }): updated_at
\* defaults to now()
NewConversation(u) ==
  [id |-> convCount + 1, user_id |-> u, title |-> <<"New Chat">>, updated_at |-> clock]

\* createConversationInDB: insert({ title: 'New Chat', user_id: user.id })
CreateConversation(u) ==
  /\ convCount < MaxConv
  /\ convCount' = convCount + 1
  /\ conversations' = conversations \cup {NewConversation(u)}
  /\ clock' = clock + 1
  /\ UNCHANGED <<messages, geminiApiKey, req, apiCalls, directs>>

\* a conversation is deleted (the policy on conversations is FOR ALL)
DeleteConversation(cid) ==
  /\ cid \in ConversationIds
  /\ conversations' = {c \in conversations : c.id # cid}
  /\ messages' = CascadeDelete(cid)
  /\ UNCHANGED <<clock, geminiApiKey, convCount, req, apiCalls, directs>>

\* a client inserts a row into messages through the policy (FOR ALL, WITH CHECK (true))
DirectInsert(u, cid, role) ==
  /\ Len(directs) < MaxDirect
  /\ directs' = Append(directs, InsertError(cid, role, TRUE))
  /\ messages' = InsertMessage(cid, "hi", role, u, 0, TRUE)
  /\ clock' = Tick(cid, role, TRUE)
  /\ UNCHANGED <<conversations, geminiApiKey, convCount, req, apiCalls>>

\* the rows a client's select on messages returns under the policy
Visible(uid) == SelectSeq(messages, LAMBDA m : MessagesPolicy(m, uid))

\* loadMessages: the rows of the selected conversation and of the signed-in user
LoadedRows(uid, cid) ==
  OrderAscending(SelectSeq(Visible(uid), LAMBDA m : m.conversation_id = cid
                                                   /\ m.user_id = uid))

(* ------------------------ ModernChatInterface -------------------------- *)

\* the files the user can pick; FileReader.readAsDataURL gives the data URL
PngFile == [name |-> "photo.png", type |-> Png.type]
PdfFile == [name |-> "paper.pdf", type |-> Pdf.type]

readAsDataURL(file) == IF file.type = Png.type THEN Png.data ELSE Pdf.data

\* a text of 58 characters and its first 50 characters
LongText == "a message of more than fifty characters, typed by the user"
LongTextStart == "a message of more than fifty characters, typed by "

\* what the user can type, and String.prototype.trim on it
Inputs == {"", "  ", LongText}

trim(text) == IF text = "  " THEN "" ELSE text

\* firstMessage.length
length(text) ==
  IF text = "" THEN 0 ELSE IF text = "  " THEN 2 ELSE IF text = LongText THEN 58 ELSE 2

\* firstMessage.slice(0, 50)
slice(text) == IF length(text) > TitleLimit THEN LongTextStart ELSE text

\* the title of a conversation, as the list of the segments that make it
Title(firstMessage) ==
  <<slice(firstMessage)>> \o (IF length(firstMessage) > TitleLimit THEN <<"...">> ELSE << >>)

\* no conversation, where a local holds none
NoConversation == [id |-> 0, user_id |-> Null, title |-> << >>, updated_at |-> 0]

\* .order('updated_at', { ascending: false }) on the rows of a set
RECURSIVE OrderDescending(_)
OrderDescending(rows) ==
  IF rows = {} THEN << >>
  ELSE LET first == CHOOSE c \in rows : \A d \in rows : d.updated_at <= c.updated_at
       IN <<first>> \o OrderDescending(rows \ {first})

\* .sort((a, b) => b.updated_at - a.updated_at): a stable sort, latest first
RECURSIVE InsertDescending(_, _)
InsertDescending(conv, s) ==
  IF s = << >> THEN <<conv>>
  ELSE IF Head(s).updated_at < conv.updated_at THEN <<conv>> \o s
  ELSE <<Head(s)>> \o InsertDescending(conv, Tail(s))

RECURSIVE SortDescending(_)
SortDescending(s) ==
  IF s = << >> THEN << >>
  ELSE InsertDescending(s[Len(s)], SortDescending(SubSeq(s, 1, Len(s) - 1)))

\* a message of the displayed list: ids are <<"t", Date.now()>> for messages
\* the page made and <<"row", id>> for rows it loaded; content is the list of
\* the segments that make the displayed string
NoMessage == [id |-> <<"none", 0>>, content |-> << >>, role |-> Null]

\* useState initial values; user is useAuth().user
IdleView(user) ==
  /\ ui = [messages |-> << >>, inputMessage |-> "", isLoading |-> FALSE,
           conversationId |-> 0, conversations |-> << >>, selectedFiles |-> << >>,
           user |-> user]
  /\ send = [s \in Sends |->
               [pc |-> "idle", inputMessage |-> "", selectedFiles |-> << >>,
                messagesLength |-> 0, user |-> Null, currentConversationId |-> 0,
                userMessage |-> NoMessage, assistantMessage |-> NoMessage,
                request |-> 0, before |-> << >>, failed |-> FALSE,
                data |-> NoConversation, titleUpdate |-> "none", moved |-> FALSE]]
  /\ loads = IF user = Null THEN {} ELSE {0}
  /\ now = 0

\* the relay and the tables as a step of the page leaves them
RelayUntouched == UNCHANGED <<req, apiCalls>>
TablesUntouched == UNCHANGED <<conversations, messages, clock, geminiApiKey, convCount, directs>>

\* onChange of the input (the input is disabled while isLoading)
setInputMessage(text) ==
  /\ ~ui.isLoading /\ text # ui.inputMessage
  /\ ui' = [ui EXCEPT !.inputMessage = text]
  /\ UNCHANGED <<send, loads, now>> /\ RelayUntouched /\ TablesUntouched

\* handleFileSelect: setSelectedFiles(prev => [...prev, ...files])
handleFileSelect(files) ==
  /\ ~ui.isLoading /\ Len(ui.selectedFiles) + Len(files) <= MaxFiles
  /\ ui' = [ui EXCEPT !.selectedFiles = @ \o files]
  /\ UNCHANGED <<send, loads, now>> /\ RelayUntouched /\ TablesUntouched

\* the effect on [conversationId, user]: a select is sent for a conversation
\* that has just been set
LoadMessagesEffect(cid) ==
  IF cid # 0 /\ ui.user # Null /\ cid # ui.conversationId THEN loads \cup {cid} ELSE loads

\* loadConversations: the select answers and the sidebar is replaced; an
\* error is only logged
loadConversations ==
  /\ 0 \in loads
  /\ loads' = loads \ {0}
  /\ \E dbUp \in BOOLEAN :
       ui' = IF dbUp
             THEN [ui EXCEPT !.conversations =
                     OrderDescending({c \in conversations : c.user_id = ui.user})]
             ELSE ui
  /\ UNCHANGED <<send, now>> /\ RelayUntouched /\ TablesUntouched

\* "moved" is not a local of sendMessage: it records, while a call has not
\* ended, that the user went to another conversation
Moved ==
  [s \in Sends |->
     IF send[s].pc \in {"create", "created", "session", "read", "unread", "invoke", "timer"}
     THEN [send[s] EXCEPT !.moved = TRUE]
     ELSE send[s]]

\* createNewConversation: back to a fresh page, no row is created
createNewConversation ==
  /\ ui.conversationId # 0 \/ ui.messages # << >>
  /\ ui' = [ui EXCEPT !.conversationId = 0, !.messages = << >>]
  /\ send' = Moved
  /\ UNCHANGED <<loads, now>> /\ RelayUntouched /\ TablesUntouched

\* selectConversation(id) from the sidebar
selectConversation(cid) ==
  /\ \E i \in 1..Len(ui.conversations) : ui.conversations[i].id = cid
  /\ cid # ui.conversationId
  /\ ui' = [ui EXCEPT !.conversationId = cid]
  /\ loads' = LoadMessagesEffect(cid)
  /\ send' = Moved
  /\ UNCHANGED now /\ RelayUntouched /\ TablesUntouched

\* data.map(msg => ({ id, content, role, timestamp }))
formattedMessages(rows) ==
  [i \in 1..Len(rows) |->
     [id |-> <<"row", rows[i].id>>, content |-> <<rows[i].content>>, role |-> rows[i].role]]

\* loadMessages: the select answers and the displayed list is replaced; an
\* error is only logged
loadMessages(cid) ==
  /\ cid \in loads
  /\ loads' = loads \ {cid}
  /\ \E dbUp \in BOOLEAN :
       ui' = IF dbUp
             THEN [ui EXCEPT !.messages = formattedMessages(LoadedRows(ui.user, cid))]
             ELSE ui
  /\ UNCHANGED <<send, now>> /\ RelayUntouched /\ TablesUntouched

\* a guard that looks at the input as it was typed
SendRefusedUntrimmed ==
  \/ (ui.inputMessage = "" /\ Len(ui.selectedFiles) = 0)
  \/ ui.isLoading
  \/ ui.user = Null

\* the guard of sendMessage: nothing to send, a request is loading, or
\* nobody is signed in
SendRefused ==
  \/ (trim(ui.inputMessage) = "" /\ Len(ui.selectedFiles) = 0)
  \/ ui.isLoading
  \/ ui.user = Null

\* selectedFiles.map(f => f.name).join(', ')
fileNames(files) == [i \in 1..Len(files) |-> files[i].name]

\* the content of the displayed user message
shownContent(inputMessage, files) ==
  IF Len(files) > 0
  THEN IF trim(inputMessage) # ""
       THEN <<inputMessage, "[Attached files: ">> \o fileNames(files)
       ELSE <<"[Attached files: ">> \o fileNames(files)
  ELSE <<inputMessage>>

\* the image files as the body of the request carries them
RECURSIVE fileData(_)
fileData(files) ==
  IF files = << >> THEN << >>
  ELSE (IF Head(files).type[1] = "image/"
        THEN <<[type |-> Head(files).type, data |-> readAsDataURL(Head(files))]>>
        ELSE << >>) \o fileData(Tail(files))

\* Date.now(): the readings are apart by a round trip to a server or by the
\* user's typing, more than the millisecond the id of a reply is ahead by
DateNow == {now + 2}

\* prev.filter(msg => msg.id !== id)
WithoutId(list, id) == SelectSeq(list, LAMBDA msg : msg.id # id)

\* sendMessage from the userMessage to the await of getSession: the message
\* is displayed, the input and the files are cleared, isLoading is set.
\* "before" is not a local of sendMessage: it records the list as it was
Optimistic(s, q, view0, cid) ==
  \E t \in DateNow :
    LET userMessage == [id |-> <<"t", t>>,
                        content |-> shownContent(q.inputMessage, q.selectedFiles),
                        role |-> "user"]
    IN /\ now' = t
       /\ ui' = [view0 EXCEPT !.messages = Append(@, userMessage), !.inputMessage = "",
                              !.selectedFiles = << >>, !.isLoading = TRUE]
       /\ send' = [send EXCEPT ![s] =
            [q EXCEPT !.pc = "session", !.currentConversationId = cid,
                      !.userMessage = userMessage, !.before = view0.messages]]

\* sendMessage is called (Enter or the send button): it returns at once on
\* its guard, awaits createConversationInDB when no conversation is set, and
\* goes on to getSession otherwise.  The values of the render are its closure
sendMessage(s) ==
  /\ send[s].pc = "idle"
  /\ s > 1 => send[s - 1].pc # "idle"
  /\ LET q == [send[s] EXCEPT !.inputMessage = ui.inputMessage,
                              !.selectedFiles = ui.selectedFiles,
                              !.messagesLength = Len(ui.messages), !.user = ui.user]
     IN IF SendRefused
        THEN /\ send' = [send EXCEPT ![s] = [send[s] EXCEPT !.pc = "returned"]]
             /\ UNCHANGED <<ui, now>>
        ELSE IF ui.conversationId = 0
        THEN /\ send' = [send EXCEPT ![s] = [q EXCEPT !.pc = "create"]]
             /\ UNCHANGED <<ui, now>>
        ELSE Optimistic(s, q, ui, ui.conversationId)
  /\ UNCHANGED loads /\ RelayUntouched /\ TablesUntouched

\* a call that goes on although the insert of its conversation was refused
insertConversationErrorIgnored(s) ==
  /\ send[s].pc = "create"
  /\ \/ /\ send' = [send EXCEPT ![s] = [send[s] EXCEPT !.pc = "created"]]
        /\ UNCHANGED <<ui, loads, now>> /\ RelayUntouched /\ TablesUntouched
     \/ /\ CreateConversation(send[s].user)
        /\ send' = [send EXCEPT ![s] =
             [send[s] EXCEPT !.pc = "created", !.data = NewConversation(send[s].user)]]
        /\ UNCHANGED <<ui, loads, now>>

\* the insert of createConversationInDB reaches the table: it is refused,
\* and sendMessage returns on the null id, or the row is written and
\* .select().single() carries it back
insertConversation(s) ==
  /\ send[s].pc = "create"
  /\ \/ /\ send' = [send EXCEPT ![s] = [send[s] EXCEPT !.pc = "returned", !.moved = FALSE]]
        /\ UNCHANGED <<ui, loads, now>> /\ RelayUntouched /\ TablesUntouched
     \/ /\ CreateConversation(send[s].user)
        /\ send' = [send EXCEPT ![s] =
             [send[s] EXCEPT !.pc = "created", !.data = NewConversation(send[s].user)]]
        /\ UNCHANGED <<ui, loads, now>>

\* createConversationInDB answers: the conversation is put first in the
\* sidebar and set, and sendMessage goes on
createConversationInDB(s) ==
  /\ send[s].pc = "created"
  /\ LET data == send[s].data
     IN /\ loads' = LoadMessagesEffect(data.id)
        /\ Optimistic(s, send[s],
                      [ui EXCEPT !.conversations = <<data>> \o @,
                                 !.conversationId = data.id],
                      data.id)
  /\ RelayUntouched /\ TablesUntouched

\* catch and finally of sendMessage
Rollback(s) ==
  /\ ui' = [ui EXCEPT !.messages = WithoutId(@, send[s].userMessage.id),
                      !.isLoading = FALSE]
  /\ send' = [send EXCEPT ![s] = [send[s] EXCEPT !.pc = "finished", !.failed = TRUE, !.moved = FALSE]]

\* supabase.functions.invoke('chat', { body }) with the token of the session:
\* the function receives the request
InvokeChat(s) ==
  \E r \in Reqs :
    /\ Receive(r, Post([valid |-> TRUE, message |-> send[s].inputMessage,
                        files |-> fileData(send[s].selectedFiles)],
                       <<"Bearer ", IF send[s].user = "u1" THEN "jwt-u1" ELSE "jwt-u2">>,
                       send[s].currentConversationId))
    /\ send' = [send EXCEPT ![s] = [send[s] EXCEPT !.pc = "invoke", !.request = r]]
    /\ UNCHANGED <<ui, loads, now>>

\* getSession answers: without a session the send fails; with one the image
\* files are read, and without image files the chat function is invoked
getSession(s) ==
  /\ send[s].pc = "session"
  /\ \/ /\ Rollback(s)
        /\ UNCHANGED <<loads, now>> /\ RelayUntouched /\ TablesUntouched
     \/ IF fileData(send[s].selectedFiles) # << >>
        THEN /\ send' = [send EXCEPT ![s] = [send[s] EXCEPT !.pc = "read"]]
             /\ UNCHANGED <<ui, loads, now>> /\ RelayUntouched /\ TablesUntouched
        ELSE InvokeChat(s)

\* the FileReader of an image file ends: onload resolves the promise and the
\* chat function is invoked; on an error nothing resolves or rejects the
\* promise (only onload is set) and sendMessage stays at its await
readFile(s) ==
  /\ send[s].pc = "read"
  /\ \/ InvokeChat(s)
     \/ /\ send' = [send EXCEPT ![s] = [send[s] EXCEPT !.pc = "unread"]]
        /\ UNCHANGED <<ui, loads, now>> /\ RelayUntouched /\ TablesUntouched

\* messages.length === 0, on the list of the render sendMessage was called in
FirstMessage(s) == send[s].messagesLength = 0

\* functions.invoke answers: an error or success = false is thrown; else the
\* reply is scheduled for display and isLoading is cleared
invoke(s) ==
  /\ send[s].pc = "invoke"
  /\ req[send[s].request].pc = "done"
  /\ LET data == req[send[s].request].response
     IN IF data.status # 200 \/ ~data.success
        THEN Rollback(s) /\ UNCHANGED now
        ELSE \E t \in DateNow :
               /\ now' = t
               /\ ui' = [ui EXCEPT !.isLoading = FALSE]
               /\ send' = [send EXCEPT ![s] =
                    [send[s] EXCEPT !.pc = "timer",
                       !.assistantMessage = [id |-> <<"t", t + 1>>,
                                             content |-> <<data.response>>,
                                             role |-> "assistant"],
                       !.titleUpdate = IF FirstMessage(s) THEN "sent" ELSE "none"]]
  /\ UNCHANGED loads /\ RelayUntouched /\ TablesUntouched

\* update({ title, updated_at }).eq('id', conversationId) answers and the
\* sidebar is updated and sorted again.  The trigger of the table sets
\* updated_at to now(); the page takes its own new Date(), and the clocks of
\* the page and of the database agree.  An error of the update is not looked at
updateConversationTitle(s) ==
  /\ send[s].titleUpdate = "sent"
  /\ LET cid == send[s].currentConversationId
         title == Title(send[s].inputMessage)
     IN /\ \E dbUp \in BOOLEAN :
             conversations' =
               IF dbUp
               THEN {IF c.id = cid THEN [c EXCEPT !.title = title, !.updated_at = clock]
                     ELSE c : c \in conversations}
               ELSE conversations
        /\ clock' = clock + 2
        /\ ui' = [ui EXCEPT !.conversations =
                    SortDescending([i \in 1..Len(@) |->
                      IF @[i].id = cid
                      THEN [@[i] EXCEPT !.title = title, !.updated_at = clock + 1]
                      ELSE @[i]])]
        /\ send' = [send EXCEPT ![s] = [send[s] EXCEPT !.titleUpdate = "done"]]
  /\ UNCHANGED <<messages, geminiApiKey, convCount, directs, loads, now>> /\ RelayUntouched

\* setTimeout(..., 200) fires: the reply is displayed
showAssistantMessage(s) ==
  /\ send[s].pc = "timer"
  /\ ui' = [ui EXCEPT !.messages = Append(@, send[s].assistantMessage)]
  /\ send' = [send EXCEPT ![s] = [send[s] EXCEPT !.pc = "finished", !.moved = FALSE]]
  /\ UNCHANGED <<loads, now>> /\ RelayUntouched /\ TablesUntouched

(* --------------------------- specification ----------------------------- *)

\* the rows earlier requests of u1 left in conversation 1: k rows, a user
\* message and its reply in turn
Preloaded(k) ==
  [i \in 1..k |->
     [id |-> i, conversation_id |-> 1,
      content |-> IF i % 2 = 1 THEN "hi" ELSE "reply",
      role |-> IF i % 2 = 1 THEN "user" ELSE "assistant",
      user_id |-> "u1", created_at |-> i, via |-> 0]]

\* sizes of conversation 1 at the start: empty, or as long as the history limit
Preload == {0, HistoryLimit}

IdleRelay ==
  /\ req = [r \in Reqs |-> IdleRequest]
  /\ apiCalls = [r \in Reqs |-> 0]

\* the relay: both users own a conversation, conversation 1 may hold history
Init ==
  /\ conversations = {[id |-> 1, user_id |-> "u1", title |-> <<"New Chat">>, updated_at |-> 0],
                      [id |-> 2, user_id |-> "u2", title |-> <<"New Chat">>, updated_at |-> 0]}
  /\ convCount = 2
  /\ \E k \in Preload : messages = Preloaded(k) /\ clock = k + 1
  /\ geminiApiKey \in {"key", Null}
  /\ IdleRelay
  /\ directs = << >>
  /\ IdleView(Null)

\* one request of the given ones runs through the handler
RelayOf(r, inbound) ==
  \/ \E in \in inbound : Receive(r, in)
  \/ Authenticate(r)
  \/ StoreUser(r)
  \/ FetchHistory(r)
  \/ Generate(r)
  \/ StoreAssistant(r)

Next ==
  /\ \/ \E r \in Reqs : RelayOf(r, Inbound)
     \/ \E cid \in ConvIds : DeleteConversation(cid)
  /\ UNCHANGED view

Spec == Init /\ [][Next]_vars

\* the text messages of both users on every conversation id
TextInbound ==
  { Post([valid |-> TRUE, message |-> "hi", files |-> << >>], h, c) :
      h \in ValidHeaders, c \in ConvIds }

\* the tables: clients create and delete conversations and insert rows
\* through the policies, next to one relay request with a text message
InitTables ==
  /\ conversations = {}
  /\ convCount = 0
  /\ messages = << >>
  /\ clock = 1
  /\ geminiApiKey = "key"
  /\ IdleRelay
  /\ directs = << >>
  /\ IdleView(Null)

NextTables ==
  /\ \/ \E u \in Users : CreateConversation(u)
     \/ \E cid \in ConvIds : DeleteConversation(cid)
     \/ \E u \in Users, cid \in ConvIds, role \in {"user", "assistant", "system"} :
          DirectInsert(u, cid, role)
     \/ RelayOf(1, TextInbound)
  /\ UNCHANGED view

SpecTables == InitTables /\ [][NextTables]_vars

\* the steps of a request after the function received it
Serve(r) ==
  \/ Authenticate(r)
  \/ StoreUser(r)
  \/ FetchHistory(r)
  \/ Generate(r)
  \/ StoreAssistant(r)

\* the page: u1 owns a conversation with a message and its reply, the page is
\* opened with u1 signed in or with nobody signed in
InitUI ==
  /\ conversations = {[id |-> 1, user_id |-> "u1", title |-> <<"New Chat">>, updated_at |-> 0]}
  /\ convCount = 1
  /\ messages = Preloaded(2) /\ clock = 3
  /\ geminiApiKey = "key"
  /\ IdleRelay
  /\ directs = << >>
  /\ \E user \in {"u1", Null} : IdleView(user)

\* the sends of the page, with every interleaving of the relay, the loads of
\* messages and the timers; the select of the sidebar and the title updates
\* are in flight
NextUI ==
  \/ \E text \in Inputs : setInputMessage(text)
  \/ handleFileSelect(<<PdfFile, PngFile>>)
  \/ createNewConversation
  \/ \E cid \in ConvIds : selectConversation(cid)
  \/ \E cid \in ConvIds : loadMessages(cid)
  \/ \E s \in Sends : sendMessage(s)
  \/ \E s \in Sends : insertConversation(s)
  \/ \E s \in Sends : createConversationInDB(s)
  \/ \E s \in Sends : getSession(s)
  \/ \E s \in Sends : readFile(s)
  \/ \E s \in Sends : invoke(s)
  \/ \E s \in Sends : showAssistantMessage(s)
  \/ \E r \in Reqs : Serve(r) /\ UNCHANGED view

SpecUI == InitUI /\ [][NextUI]_vars

\* what a call of sendMessage does once an awaited answer is there
Resume(s) ==
  \/ insertConversation(s)
  \/ createConversationInDB(s)
  \/ getSession(s)
  \/ readFile(s)
  \/ invoke(s)
  \/ showAssistantMessage(s)

\* the page with its awaited operations ending: the tables, the auth service,
\* the file reader, the relay and the generation API all end what they were
\* asked, with an answer or an error, and a timer that was set fires
SpecUILive ==
  /\ InitUI /\ [][NextUI]_vars
  /\ \A s \in Sends : WF_vars(Resume(s))
  /\ \A r \in Reqs : WF_vars(Serve(r) /\ UNCHANGED view)
  /\ \A cid \in ConvIds : WF_vars(loadMessages(cid))

\* the relay is serving no request
RelayQuiet == \A r \in Reqs : req[r].pc \in {"idle", "done"}

\* the sidebar: u1 is signed in and owns a conversation without messages
InitSidebar ==
  /\ conversations = {[id |-> 1, user_id |-> "u1", title |-> <<"New Chat">>, updated_at |-> 0]}
  /\ convCount = 1
  /\ messages = << >> /\ clock = 1
  /\ geminiApiKey = "key"
  /\ IdleRelay
  /\ directs = << >>
  /\ IdleView("u1")

\* what the user types: nothing, or a message of more than fifty characters
Texts == {"", LongText}

\* the page of a user who sends text: every step of the page, with the relay
\* serving each request without an error and before the page takes its next
\* step
NextSidebar ==
  \/ /\ RelayQuiet
     /\ \/ \E text \in Texts : setInputMessage(text)
        \/ createNewConversation
        \/ loadConversations
        \/ \E cid \in ConvIds : selectConversation(cid)
        \/ \E cid \in ConvIds : loadMessages(cid)
        \/ \E s \in Sends : sendMessage(s)
        \/ \E s \in Sends : insertConversation(s)
        \/ \E s \in Sends : createConversationInDB(s)
        \/ \E s \in Sends : getSession(s)
        \/ \E s \in Sends : invoke(s)
        \/ \E s \in Sends : showAssistantMessage(s)
        \/ \E s \in Sends : updateConversationTitle(s)
  \/ \E r \in Reqs : Serve(r) /\ req'[r].failed = {} /\ UNCHANGED view

SpecSidebar == InitSidebar /\ [][NextSidebar]_vars

(* ------------------------------- claims -------------------------------- *)

Range(s) == {s[i] : i \in 1..Len(s)}

IsPrefix(s, t) == Len(s) <= Len(t) /\ SubSeq(t, 1, Len(s)) = s

\* the rows request r wrote with the given role
RowsVia(r, role) == SelectSeq(messages, LAMBDA m : m.via = r /\ m.role = role)

Succeeded(r) == req[r].pc = "done" /\ req[r].response.success

ExpectedSteps == <<"persist_user", "fetch_history", "call_api", "persist_assistant", "return">>

\* C1: the steps of a request happen in the order persist user message, fetch
\* history, call the generation API, persist assistant message, return, each
\* at most once and none before the one before it is complete; a request that
\* returns success has done each of them exactly once.
C1_PipelineOrder ==
  \A r \in Reqs :
    /\ IsPrefix(req[r].steps, ExpectedSteps)
    /\ apiCalls[r] = (IF "call_api" \in Range(req[r].steps) THEN 1 ELSE 0)
    /\ Len(RowsVia(r, "user")) <= 1 /\ Len(RowsVia(r, "assistant")) <= 1
    /\ RowsVia(r, "user") # << >> => "persist_user" \in Range(req[r].steps)
    /\ RowsVia(r, "assistant") # << >> => "persist_assistant" \in Range(req[r].steps)
    /\ Succeeded(r) =>
         /\ req[r].steps = ExpectedSteps
         /\ req[r].conversationId \in ConversationIds =>
              /\ Len(RowsVia(r, "user")) = 1 /\ Len(RowsVia(r, "assistant")) = 1
              /\ RowsVia(r, "user")[1].created_at < RowsVia(r, "assistant")[1].created_at

\* two requests on the same conversation both returned success
C1_Witness ==
  /\ \A r \in Reqs : Succeeded(r) /\ req[r].conversationId = 1
  /\ 1 \in ConversationIds

\* the last n elements of s
LastN(s, n) == SubSeq(s, IF Len(s) > n THEN Len(s) - n + 1 ELSE 1, Len(s))

\* C2: the history a request fetches is the HistoryLimit most recently created
\* messages of the conversation and user, oldest first.
C2_LastMessages ==
  [][\A r \in Reqs :
       (req[r].pc = "history" /\ req'[r].pc = "generate" /\ ~req'[r].historyError)
       => req'[r].history =
            Project(LastN(OrderAscending(Matching(req[r].conversationId, req[r].user)),
                          HistoryLimit))]_vars

\* C3: a request other than OPTIONS without an authorization header, or with
\* a token that is not a user's, stores no message, calls the generation API
\* never and is not answered with success.
C3_AuthenticateFirst ==
  \A r \in Reqs :
    (req[r].method = "POST" /\ req[r].authHeader \notin ValidHeaders)
    => /\ \A i \in 1..Len(messages) : messages[i].via # r
       /\ apiCalls[r] = 0
       /\ req[r].steps = << >>
       /\ req[r].response.success = FALSE

\* one request was refused for its missing header, one for its forged token
C3_Witness ==
  /\ \E r \in Reqs : req[r].pc = "done" /\ req[r].authHeader = << >>
                     /\ req[r].response.error = ErrNoAuthHeader
  /\ \E r \in Reqs : req[r].pc = "done" /\ req[r].authHeader = <<"Bearer ", "forged">>
                     /\ req[r].response.error = ErrNotAuthenticated

\* C4: a request of which any step failed is answered with status 500 and a
\* body with success = false and the error message, never with success.
C4_ErrorsReported ==
  \A r \in Reqs :
    (req[r].pc = "done" /\ req[r].failed # {})
    => /\ req[r].response.status = 500
       /\ req[r].response.hasBody
       /\ req[r].response.success = FALSE
       /\ req[r].response.error # Null

\* C5: every message row names one conversation, and that conversation
\* exists (conversation ids are unique).
C5_MessagesHaveConversation ==
  /\ \A i \in 1..Len(messages) : messages[i].conversation_id \in ConversationIds
  /\ \A c, d \in conversations : c.id = d.id => c = d

\* rows are left after a conversation was deleted, and an insert that named
\* a missing conversation was refused
C5_Witness ==
  /\ messages # << >>
  /\ Cardinality(conversations) < convCount
  /\ ErrForeignKey \in Range(directs)

RowsOf(table, cid) == SelectSeq(table, LAMBDA m : m.conversation_id = cid)

\* C6: in the state right after a conversation is deleted no message of it
\* remains, and the messages of every other conversation are as before.
C6_DeleteCascades ==
  [][\A cid \in ConversationIds \ ConversationIds' :
       /\ RowsOf(messages', cid) = << >>
       /\ \A other \in ConvIds \ {cid} : RowsOf(messages', other) = RowsOf(messages, other)
       /\ Len(messages') = Len(messages) - Len(RowsOf(messages, cid))]_vars

\* a conversation with messages was deleted and the other one kept its messages
C6_Witness ==
  /\ Cardinality(conversations) = 1 /\ convCount = 2
  /\ messages # << >>
  /\ clock - 1 > Len(messages)

\* C7: a read of messages on behalf of a user returns only rows of that user,
\* by the relay's history query, by the UI's loadMessages and by any select
\* the policies of the schema admit.
C7_OwnerOnly ==
  \A u \in Users :
    /\ Owners(Visible(u)) \subseteq {u}
    /\ \A cid \in ConvIds : /\ Owners(HistoryRows(cid, u)) \subseteq {u}
                            /\ Owners(LoadedRows(u, cid)) \subseteq {u}

\* C8: every row of messages has role user or assistant; the relay writes a
\* user row for the inbound message and an assistant row for the reply, and
\* an insert with any other role is refused.
C8_Roles ==
  /\ \A i \in 1..Len(messages) : messages[i].role \in {"user", "assistant"}
  /\ \A r \in Reqs :
       /\ \A i \in 1..Len(RowsVia(r, "user")) :
            RowsVia(r, "user")[i].content = messageContent(req[r].body.message)
       /\ \A i \in 1..Len(RowsVia(r, "assistant")) :
            RowsVia(r, "assistant")[i].content = req[r].assistantMessage

\* the relay stored a user row and an assistant row, and a client's insert
\* was refused by the check on role
C8_Witness ==
  /\ RowsVia(1, "user") # << >> /\ RowsVia(1, "assistant") # << >>
  /\ ErrRoleCheck \in Range(directs)

\* C9: a request is answered with success only after its user message and its
\* assistant message were stored, and the text of the response is the content
\* of the stored assistant message.
C9_SuccessAfterStore ==
  \A r \in Reqs :
    req[r].response.success =>
      /\ {"persist_user", "persist_assistant"} \subseteq Range(req[r].steps)
      /\ req[r].failed \subseteq {"fetch_history"}
      /\ req[r].response.response = req[r].assistantMessage
      /\ req[r].conversationId \in ConversationIds =>
           /\ RowsVia(r, "user") # << >>
           /\ \E i \in 1..Len(messages) :
                /\ messages[i].via = r /\ messages[i].role = "assistant"
                /\ messages[i].content = req[r].response.response
                /\ messages[i].conversation_id = req[r].conversationId

\* a request was answered with success and its rows are in the table
C9_Witness ==
  \E r \in Reqs : /\ Succeeded(r) /\ req[r].response.response = "reply"
                  /\ RowsVia(r, "assistant") # << >>
                  /\ req[r].body.message = ""

FailedAfterStore(r) ==
  /\ req[r].pc = "done" /\ ~req[r].response.success
  /\ "persist_user" \in Range(req[r].steps)

\* C10: a request that fails after its user message was stored leaves that
\* message in the conversation, stores it once, and stores no assistant message.
C10_NoRecovery ==
  \A r \in Reqs :
    FailedAfterStore(r) =>
      /\ RowsVia(r, "assistant") = << >>
      /\ Len(RowsVia(r, "user")) <= 1
      /\ req[r].conversationId \in ConversationIds =>
           /\ Len(RowsVia(r, "user")) = 1
           /\ RowsVia(r, "user")[1].conversation_id = req[r].conversationId
      /\ req[r].failed \cap {"call_api", "persist_assistant"} # {}

\* one request failed at the generation API, one at the insert of the reply,
\* and the user messages of both are in the conversation
C10_Witness ==
  /\ \E r \in Reqs : FailedAfterStore(r) /\ "call_api" \in req[r].failed
                     /\ RowsVia(r, "user") # << >>
  /\ \E r \in Reqs : FailedAfterStore(r) /\ "persist_assistant" \in req[r].failed
                     /\ RowsVia(r, "user") # << >>


\* the steps that refuse a request before its user message is stored
EarlyRefusals == {"parse_body", "validate", "authorize", "authenticate", "api_key"}

\* C12: a request refused before its user message is stored (body that does
\* not parse, neither message nor files, no authorization header, token of no
\* user, no API key) leaves conversations and messages as they are and makes
\* no call to the generation API.
C12_EarlyRefusalChangesNothing ==
  [][\A r \in Reqs :
       (req[r].pc # "done" /\ req'[r].pc = "done" /\ req'[r].failed \cap EarlyRefusals # {})
       => /\ messages' = messages /\ conversations' = conversations
          /\ apiCalls' = apiCalls /\ apiCalls[r] = 0
          /\ \A i \in 1..Len(messages') : messages'[i].via # r
          /\ req'[r].response = ErrorResponse(req'[r].response.error)]_vars

\* with messages in the table, one request was refused for the missing API
\* key and one for its body
C12_Witness ==
  /\ messages # << >>
  /\ \E r \in Reqs : req[r].pc = "done" /\ req[r].failed = {"api_key"}
  /\ \E r \in Reqs : req[r].pc = "done" /\ req[r].failed = {"parse_body"}

\* C13: an OPTIONS request is answered at once with the CORS headers: its
\* body is not read, it is not authenticated, no row is read or written and
\* the generation API is not called.
C13_Preflight ==
  \A r \in Reqs :
    req[r].method = "OPTIONS"
    => /\ req[r].pc = "done"
       /\ req[r].response = PreflightResponse
       /\ req[r].response.headers = corsHeaders
       /\ req[r].failed = {} /\ req[r].steps = << >>
       /\ req[r].jwt = << >> /\ req[r].user = Null
       /\ req[r].history = << >> /\ req[r].contents = << >>
       /\ apiCalls[r] = 0
       /\ \A i \in 1..Len(messages) : messages[i].via # r

\* an OPTIONS request with a body that does not parse and no authorization
\* header was answered
C13_Witness ==
  \E r \in Reqs : /\ req[r].method = "OPTIONS" /\ req[r].pc = "done"
                  /\ ~req[r].body.valid /\ req[r].authHeader = << >>
                  /\ req[r].response.status = 200


\* the rows of a sequence that request r wrote
OwnRows(rows, r) == SelectSeq(rows, LAMBDA row : row.via = r)

\* C14: the contents forwarded to the generation API hold the message of the
\* request exactly once: one entry for each earlier message of the history and
\* one entry for the current message, none of the history entries being the
\* row the request has just stored.
C14_CurrentMessageOnce ==
  [][\A r \in Reqs :
       (req[r].pc = "history" /\ req'[r].pc = "generate")
       => LET rows == IF req'[r].historyError THEN << >>
                      ELSE HistoryRows(req[r].conversationId, req[r].user)
          IN /\ Len(req'[r].contents) = Len(rows) + 1
             /\ Len(OwnRows(rows, r)) = 0]_vars


\* the requests whose contents have been built
Built(r) == req[r].pc \in {"generate", "store_assistant"} \/ "fetch_history" \in Range(req[r].steps)

\* the entries of a history that are not system messages, in order
NonSystem(history) == SelectSeq(history, LAMBDA m : m.role # "system")

\* C15: every entry of the contents has role 'user' or 'model'; the entries
\* but the last are the non-system messages of the history in their order,
\* 'assistant' mapped to 'model' and any other role to 'user', each with the
\* text of its message; the last entry is the current message with role 'user'.
C15_ContentsRoles ==
  \A r \in Reqs :
    Built(r)
    => LET c == req[r].contents
           h == NonSystem(req[r].history)
       IN /\ Len(c) = Len(h) + 1
          /\ \A i \in 1..Len(c) : c[i].role \in {"user", "model"}
          /\ \A i \in 1..Len(h) :
               /\ (c[i].role = "model") <=> (h[i].role = "assistant")
               /\ c[i].parts[1] = [text |-> h[i].content]
          /\ c[Len(c)].role = "user"
          /\ c[Len(c)].parts[1].text \in {req[r].body.message, "Please analyze this image."}

\* contents were built from a history with user and assistant messages
C15_Witness ==
  \E r \in Reqs :
    /\ Built(r)
    /\ \E i, j \in 1..Len(req[r].history) :
         /\ i < j /\ req[r].history[i].role = "assistant" /\ req[r].history[j].role = "user"
         /\ req[r].contents[i].role = "model" /\ req[r].contents[j].role = "user"


\* the user rows that request r stored
UserRowsOf(r) == RowsVia(r, "user")

\* C16: for a request without text (image-only) the stored user message has
\* content '[Image analysis requested]' and the text part sent to the API is
\* 'Please analyze this image.'; for a request with text both are the text.
C16_ImageOnlyPrompt ==
  \A r \in Reqs :
    LET message == req[r].body.message
        imageOnly == message = ""
    IN /\ "persist_user" \in Range(req[r].steps)
          => /\ Len(UserRowsOf(r)) = 1 \/ req[r].conversationId \notin ConversationIds
             /\ \A i \in 1..Len(UserRowsOf(r)) :
                  UserRowsOf(r)[i].content =
                    IF imageOnly THEN "[Image analysis requested]" ELSE message
       /\ Built(r)
          => req[r].contents[Len(req[r].contents)].parts[1] =
               [text |-> IF imageOnly THEN "Please analyze this image." ELSE message]

\* a request with files and no text stored its user message and built its contents
C16_Witness ==
  \E r \in Reqs :
    /\ req[r].body.message = "" /\ Len(req[r].body.files) > 0
    /\ Built(r) /\ Len(UserRowsOf(r)) = 1


\* the files of a request whose type starts with 'image/', in order
ImagesOf(files) == SelectSeq(files, LAMBDA f : f.type[1] = "image/")

\* the inline parts the images of a request should be forwarded as
ExpectedInline(files) ==
  [i \in 1..Len(ImagesOf(files)) |->
     [inlineData |-> [mimeType |-> ImagesOf(files)[i].type,
                      data |-> ImagesOf(files)[i].data[2]]]]

\* C17: the parts after the text part of an entry are the image files of the
\* request, in order, each with its own mime type and its data without the
\* data-URL prefix; a file of another type is in no entry; of the history
\* entries only the latest one carries images, and only if its role is 'user'.
C17_ImagesForwarded ==
  \A r \in Reqs :
    Built(r)
    => LET c == req[r].contents
           n == Len(c)
           files == req[r].body.files
       IN /\ Tail(c[n].parts) = ExpectedInline(files)
          /\ \A i \in 1..(n - 1) :
               /\ "text" \in DOMAIN c[i].parts[1]
               /\ Tail(c[i].parts) \in {<< >>, ExpectedInline(files)}
               /\ Tail(c[i].parts) # << >> => i = n - 1 /\ c[i].role = "user"

\* a request with an image and a file of another type forwarded the image in
\* its current message and in the latest history entry, not in an earlier one
C17_Witness ==
  \E r \in Reqs :
    /\ Built(r) /\ req[r].body.files = <<Pdf, Png>>
    /\ LET c == req[r].contents
       IN /\ Len(c) >= 3
          /\ Len(c[Len(c)].parts) = 2 /\ Len(c[Len(c) - 1].parts) = 2
          /\ Len(c[1].parts) = 1


\* C18: every row the relay inserted has the authenticated user of its
\* request as user_id, and the conversation it is in is owned by that user.
C18_RelayWritesForOwner ==
  \A i \in 1..Len(messages) :
    messages[i].via # 0
    => /\ messages[i].user_id = req[messages[i].via].user
       /\ \E c \in conversations : /\ c.id = messages[i].conversation_id
                                   /\ c.user_id = messages[i].user_id


\* the positions in messages of the rows request r wrote with a role
PositionsVia(r, role) ==
  {i \in 1..Len(messages) : messages[i].via = r /\ messages[i].role = role}

\* the rows of a conversation the relay wrote with a role
RelayRows(cid, role) ==
  SelectSeq(messages, LAMBDA m : m.via # 0 /\ m.conversation_id = cid /\ m.role = role)

\* C19: whatever the interleaving of the requests, every assistant message
\* the relay stored has a user message of the same request stored earlier in
\* the same conversation; a conversation holds at most as many assistant as
\* user messages of the relay; a successful request has added exactly one
\* user and one assistant message (while its conversation exists); a failed
\* request has added at most one user message and no assistant message.
C19_PairedWrites ==
  /\ \A r \in Reqs : \A j \in PositionsVia(r, "assistant") :
       \E i \in PositionsVia(r, "user") :
         /\ i < j /\ messages[i].created_at < messages[j].created_at
         /\ messages[i].conversation_id = messages[j].conversation_id
  /\ \A cid \in ConvIds : Len(RelayRows(cid, "assistant")) <= Len(RelayRows(cid, "user"))
  /\ \A r \in Reqs :
       /\ (Succeeded(r) /\ req[r].conversationId \in ConversationIds)
          => /\ Cardinality(PositionsVia(r, "user")) = 1
             /\ Cardinality(PositionsVia(r, "assistant")) = 1
       /\ (req[r].pc = "done" /\ req[r].response.status = 500)
          => /\ Cardinality(PositionsVia(r, "user")) <= 1
             /\ PositionsVia(r, "assistant") = {}

\* two requests on conversation 1 interleaved: both user messages were stored
\* before either reply, and the second request's reply before the first's
C19_Witness ==
  /\ Succeeded(1) /\ Succeeded(2)
  /\ req[1].conversationId = 1 /\ req[2].conversationId = 1
  /\ \E i, j, k, l \in 1..Len(messages) :
       /\ i < j /\ j < k /\ k < l
       /\ messages[i].via = 1 /\ messages[i].role = "user"
       /\ messages[j].via = 2 /\ messages[j].role = "user"
       /\ messages[k].via = 2 /\ messages[k].role = "assistant"
       /\ messages[l].via = 1 /\ messages[l].role = "assistant"


\* the calls of sendMessage that returned on the guard (their closure was
\* never read)
Refused(s) == send[s].pc = "returned" /\ send[s].user = Null

\* C20: a call of sendMessage when the trimmed input is empty and no file is
\* selected, or a request is loading, or nobody is signed in, returns and
\* changes nothing: no conversation, no displayed message, no request to the
\* relay, the input and the selected files as they were; a call with a
\* message or a file, nothing loading and a signed-in user goes on to send.
C20_SendGuard ==
  [][\A s \in Sends :
       (send[s].pc = "idle" /\ send'[s].pc # "idle")
       => IF \/ (ui.inputMessage \in {"", "  "} /\ ui.selectedFiles = << >>)
             \/ ui.isLoading
             \/ ui.user = Null
          THEN /\ Refused(s)'
               /\ ui' = ui /\ loads' = loads
               /\ conversations' = conversations /\ convCount' = convCount
               /\ messages' = messages /\ req' = req /\ apiCalls' = apiCalls
          ELSE send'[s].pc \in {"create", "session"}]_vars

\* a first call with a file and no text went on to send; a second call while
\* it was loading returned
C20_Witness ==
  /\ send[1].pc \in {"session", "read", "invoke"} /\ ui.isLoading
  /\ send[1].inputMessage = "" /\ Len(send[1].selectedFiles) > 0
  /\ Refused(2)

\* C11: sendMessage displays the user's message before the relay is invoked,
\* and when the send fails (no session, an error of invoke, success = false)
\* the displayed list is again the list as it was before the send.
C11_OptimisticRollback ==
  [][\A s \in Sends :
       /\ (send[s].pc \in {"idle", "created"} /\ send'[s].pc = "session")
          => ui'.messages = Append(send'[s].before, send'[s].userMessage)
       /\ (send[s].pc \in {"session", "read"} /\ send'[s].pc = "invoke")
          => req[send'[s].request].pc = "idle"
       /\ (~send[s].failed /\ send'[s].failed)
          => ui'.messages = send[s].before]_vars


\* the calls of sendMessage that have not finished: they await the creation
\* of the conversation, the session or the answer of the relay
InFlight(s) == send[s].pc \in {"create", "created", "session", "read", "unread", "invoke"}

\* C21: a call of sendMessage while an earlier call has not finished (be it
\* still awaiting the creation of its conversation) returns at once: it
\* creates no conversation, displays no message and makes no request.
C21_SingleSend ==
  [][\A s \in Sends :
       (/\ send[s].pc = "idle" /\ send'[s].pc # "idle"
        /\ \E other \in Sends \ {s} : InFlight(other))
       => /\ Refused(s)'
          /\ ui' = ui /\ conversations' = conversations /\ req' = req]_vars


\* C22: every call of sendMessage that set isLoading sets it back to false:
\* it reaches its finally block, be it after a success, after a failure, or
\* after a failure to read an attached file.
C22_LoadingEnds ==
  \A s \in Sends :
    (send[s].pc = "session") ~> (send[s].pc \in {"timer", "finished"} /\ ~ui.isLoading)


\* C23: conversations are created lazily.  New Chat sets conversationId to
\* null and empties the displayed list and writes no row; a conversation is
\* inserted only by a call of sendMessage made while no conversation was
\* selected and with something to send, one row for the call; and when the
\* insert fails the call returns with no message displayed and no request
\* to the relay.
C23_LazyConversation ==
  [][/\ (ui.conversationId # 0 /\ ui'.conversationId = 0)
        => /\ ui'.messages = << >>
           /\ conversations' = conversations /\ convCount' = convCount
           /\ messages' = messages /\ req' = req
     /\ ConversationIds' # ConversationIds
        => \E s \in Sends :
             /\ send[s].pc = "create" /\ send'[s].pc = "created"
             /\ Cardinality(conversations') = Cardinality(conversations) + 1
             /\ conversations \subseteq conversations'
             /\ \A other \in Sends \ {s} : send'[other] = send[other]
     /\ \A s \in Sends :
          /\ (send[s].pc # "create" /\ send'[s].pc = "create")
             => /\ send[s].pc = "idle" /\ ui.conversationId = 0
                /\ (trim(ui.inputMessage) # "" \/ Len(ui.selectedFiles) > 0)
          /\ (send[s].pc = "create" /\ send'[s].pc # "create")
             => (send'[s].pc = "returned") = (ConversationIds' = ConversationIds)
          /\ (send[s].pc = "create" /\ send'[s].pc = "returned")
             => /\ ui' = ui /\ req' = req /\ loads' = loads
                /\ conversations' = conversations /\ messages' = messages
          /\ send[s].pc = "returned"
             => /\ send'[s] = send[s]
                /\ send[s].userMessage = NoMessage /\ send[s].request = 0]_vars

\* the insert of one call failed and the call returned; another call created
\* conversation 2, and New Chat was pressed after that
C23_Witness ==
  /\ \E s \in Sends : send[s].pc = "returned" /\ send[s].user # Null
  /\ \E s \in Sends : send[s].data.id = 2 /\ send[s].pc \in {"session", "invoke", "finished"}
  /\ 2 \in ConversationIds
  /\ ui.conversationId = 0 /\ ui.messages = << >>


\* the rows of conversation cid that were not written for request r
RowsBefore(cid, r) ==
  SelectSeq(messages, LAMBDA m : m.conversation_id = cid /\ m.via # r)

\* the first 50 characters of the text, and '...' after them when it is longer
ExpectedTitle(text) ==
  IF text = LongText THEN <<LongTextStart, "...">> ELSE <<text>>

\* C24: the title of a conversation is updated exactly when the message sent
\* with success is the first message of the conversation, and then to the
\* first 50 characters of the typed message, with '...' after them exactly
\* when the message has more than 50 characters; a send into a conversation
\* that has messages leaves its title as it is.
C24_TitleOfFirstMessage ==
  [][\A s \in Sends :
       /\ (send[s].pc = "invoke" /\ send'[s].pc = "timer")
          => ((send'[s].titleUpdate = "sent")
                = (RowsBefore(send[s].currentConversationId, send[s].request) = << >>))
       /\ (send[s].titleUpdate = "sent" /\ send'[s].titleUpdate = "done")
          => \A c \in conversations' :
               \/ c \in conversations
               \/ /\ c.id = send[s].currentConversationId
                  /\ c.title = ExpectedTitle(send[s].inputMessage)]_vars


\* C25: the conversations of the sidebar are displayed by updated_at, the
\* most recent first, in every state: after the load, after a conversation
\* that was created is put first, and after a title update sorts the list.
C25_SidebarOrdered ==
  \A i \in 1..Len(ui.conversations) : \A j \in 1..Len(ui.conversations) :
    i < j => ui.conversations[i].updated_at >= ui.conversations[j].updated_at


\* the entries of the list that display the message of call s with the given
\* role: the entry the call appended itself, or a loaded row that the relay
\* wrote for the request of the call
EntriesOf(list, s, role) ==
  {i \in 1..Len(list) :
     /\ list[i].role = role
     /\ \/ list[i].id = (IF role = "user" THEN send[s].userMessage.id
                         ELSE send[s].assistantMessage.id)
        \/ \E k \in 1..Len(messages) :
             /\ messages[k].via = send[s].request /\ messages[k].role = role
             /\ list[i].id = <<"row", messages[k].id>>}

\* C26: when a call of sendMessage has succeeded and the user has stayed on
\* the conversation, the displayed list holds the message of the user once
\* and, right after it, the reply once, however the load of the messages that
\* starts when the call sets the id of its new conversation is interleaved.
C26_MessageAndReplyOnce ==
  [][\A s \in Sends :
       (send[s].pc = "timer" /\ send'[s].pc = "finished" /\ ~send[s].moved)
       => \E i \in 1..Len(ui'.messages) - 1 :
            /\ EntriesOf(ui'.messages, s, "user") = {i}
            /\ EntriesOf(ui'.messages, s, "assistant") = {i + 1}]_vars

====
